---------------------------- MODULE Spec2Model ----------------------------
(***************************************************************************)
(* A model of the Algonauts training repository:                           *)
(*   - start_tasks.py : the experiment fan-out over (pathway, ROI)         *)
(*   - main.py        : vectorized_correlation, LitI3DFC.training_step,    *)
(*                      LitI3DFC.configure_optimizers and the files a      *)
(*                      training run writes.                               *)
(* Strings are sequences of tokens (a token is a piece of text that the    *)
(* code never splits further), so that formatting, joining and splitting   *)
(* are computed rather than assumed.                                       *)
(***************************************************************************)
EXTENDS Integers, Sequences, FiniteSets, TLC

VARIABLES
    \* ---- start_tasks.py
    f_pc,          \* position of the script inside the nested loop
    queues_buffer, \* itertools.cycle(queue_names): index of the next element
    pi,            \* index of the current pathway in pathways
    ri,            \* index of the current roi in rois
    queue,         \* the local `queue`
    cloned_task,   \* id of the local `cloned_task` (0: none)
    cloned_task_parameters, \* the local dict
    tasks,         \* the tracking server: cloned tasks, by id
    enqueued,      \* the queueing service: what was enqueued, in order
    task_ids       \* the list task_ids

VARIABLES
    \* ---- main.py, LitI3DFC
    hparams,       \* self.hparams (asm, weight_decay, learning_rate, backbone_lr_ratio)
    t_pc,          \* position inside training_step ("idle": between two steps)
    training,      \* module -> its .training flag
    grad,          \* the parameters' .grad: the backward passes accumulated in it
    perturbed,     \* whether the ascent perturbation e_w is applied to the parameters
    batch,         \* the batch of the current step
    batch_idx,     \* number of training steps begun
    trace,         \* what the current training_step did so far
    updates,       \* every parameter update made, with the gradient it used
    backbone_named_parameters, \* self.backbone.named_parameters(), in order
    minifc_named_parameters,   \* self.minifc.named_parameters(), in order
    optimizer,     \* what configure_optimizers returned ("none" before the call)
    output_size,   \* hparams['output_size']: the number of voxels predicted
    val_step_outputs, \* what the validation_step calls of this epoch returned
    c_pc,          \* "validating", or "logged" after validation_epoch_end
    corr,          \* the value vectorized_correlation returned
    val_corr,      \* the value logged as val_corr
    \* ---- main.py, two submitted jobs running side by side
    j_args,        \* job -> its command line (roi, predictions_dir, save_checkpoints)
    j_pc,          \* job -> "fit", "saving", "predict" or "done"
    j_epoch,       \* job -> the current epoch
    j_kept,        \* job -> the checkpoints its callback keeps (best_k_models)
    j_pending,     \* job -> the checkpoint about to be written
    j_written,     \* job -> the paths it wrote
    fs             \* the file system under /home/huze/.cache: path -> last writer

fanVars == <<f_pc, queues_buffer, pi, ri, queue, cloned_task,
             cloned_task_parameters, tasks, enqueued, task_ids>>

trainVars == <<t_pc, training, grad, perturbed, batch, batch_idx, trace, updates>>

optVars == <<backbone_named_parameters, minifc_named_parameters, optimizer>>

corrVars == <<output_size, val_step_outputs, c_pc, corr, val_corr>>

jobVars == <<j_args, j_pc, j_epoch, j_kept, j_pending, j_written, fs>>

vars == <<fanVars, hparams, trainVars, optVars, corrVars, jobVars>>

notFan == <<hparams, trainVars, optVars, corrVars, jobVars>>

notTrain == <<fanVars, optVars, corrVars, jobVars>>

notOpt == <<fanVars, trainVars, corrVars, jobVars>>

notCorr == <<fanVars, hparams, trainVars, optVars, jobVars>>

notJobs == <<fanVars, hparams, trainVars, optVars, corrVars>>

-----------------------------------------------------------------------------
(* Helpers on sequences *)

\* str.split(sep) on a token string: the pieces between the sep tokens
RECURSIVE SplitFrom(_, _, _)
SplitFrom(s, sep, cur) ==
    IF s = <<>> THEN <<cur>>
    ELSE IF Head(s) = sep THEN <<cur>> \o SplitFrom(Tail(s), sep, <<>>)
    ELSE SplitFrom(Tail(s), sep, Append(cur, Head(s)))

Split(s, sep) == SplitFrom(s, sep, <<>>)

IsPrefix(s, t) == Len(s) <= Len(t) /\ SubSeq(t, 1, Len(s)) = s

-----------------------------------------------------------------------------
(* start_tasks.py *)

BASE_TASK == <<"task template">>

rois == <<"LOC", "FFA", "STS", "EBA", "PPA", "V1", "V2", "V3", "V4">>

\* available_devices = {'16': [0, 1]}: the items in insertion order
available_devices == << [k |-> "16", vs |-> <<"0", "1">>] >>

\* queue_names.append(f'{k}-{v}') for every k, vs and every v of vs
RECURSIVE QueueNamesOf(_, _)
QueueNamesOf(k, vs) ==
    IF vs = <<>> THEN <<>>
    ELSE << <<k, "-", Head(vs)>> >> \o QueueNamesOf(k, Tail(vs))

RECURSIVE QueueNamesFrom(_)
QueueNamesFrom(devs) ==
    IF devs = <<>> THEN <<>>
    ELSE QueueNamesOf(Head(devs).k, Head(devs).vs) \o QueueNamesFrom(Tail(devs))

queue_names == QueueNamesFrom(available_devices)

pathways == <<"topdown", "none">>

layers == "x1,x2,x3,x4"

\* The template's parameters: the keys the loop overwrites, at their template value
ParamKeys ==
    {"Args/roi", "Args/batch_size", "Args/num_layers", "Args/conv_size",
     "Args/layer_hidden", "Args/debug", "Args/early_stop_epochs", "Args/gpus",
     "Args/x1_pooling_mode", "Args/x2_pooling_mode", "Args/x3_pooling_mode",
     "Args/x4_pooling_mode", "Args/backbone_type", "Args/fc_fusion",
     "Args/pyramid_layers", "Args/pathways", "Args/aux_loss_weight",
     "Args/val_check_interval", "Args/save_checkpoints", "Args/predictions_dir"}

TemplateParameters == [key \in ParamKeys |-> <<"template">>]

template_task == [id |-> 0, name |-> BASE_TASK, params |-> TemplateParameters]

\* lines 44-64: the assignments to cloned_task_parameters
Overwrite(p, roi, pathway, q) ==
    [p EXCEPT
        !["Args/roi"] = <<roi>>,
        !["Args/batch_size"] = <<"32">>,
        !["Args/num_layers"] = <<"1">>,
        !["Args/conv_size"] = <<"256">>,
        !["Args/layer_hidden"] = <<"2048">>,
        !["Args/debug"] = <<"False">>,
        !["Args/early_stop_epochs"] = <<"5">>,
        !["Args/gpus"] = Split(q, "-")[2],
        !["Args/x1_pooling_mode"] = <<"spp">>,
        !["Args/x2_pooling_mode"] = <<"spp">>,
        !["Args/x3_pooling_mode"] = <<"spp">>,
        !["Args/x4_pooling_mode"] = <<"spp">>,
        !["Args/backbone_type"] = <<"all">>,
        !["Args/fc_fusion"] = <<"concat">>,
        !["Args/pyramid_layers"] = <<layers>>,
        !["Args/pathways"] = <<pathway>>,
        !["Args/aux_loss_weight"] = <<"0.0">>,
        !["Args/val_check_interval"] = <<"0.5">>,
        !["Args/save_checkpoints"] = <<"True">>,
        !["Args/predictions_dir"] =
            <<"/home/huze/.cache/predictions/v2_pyramid_", pathway, "_", layers, "/">>]

\* A variant that starts the rotation again when a pathway is finished
CycleRestartPerPathway(pos) == IF ri = Len(rois) THEN 1 ELSE (pos % Len(queue_names)) + 1

\* next() of itertools.cycle: after the last element comes the first again
CycleAdvance(pos) == (pos % Len(queue_names)) + 1

\* The k-th (k = 1, 2, ...) combination of the nested loop: pathways outside, rois inside
Combination(k) ==
    [pathway |-> pathways[((k - 1) \div Len(rois)) + 1],
     roi |-> rois[((k - 1) % Len(rois)) + 1]]

FanInit ==
    /\ f_pc = "next_queue"
    /\ queues_buffer = 1
    /\ pi = 1
    /\ ri = 1
    /\ queue = <<>>
    /\ cloned_task = 0
    /\ cloned_task_parameters = TemplateParameters
    /\ tasks = <<>>
    /\ enqueued = <<>>
    /\ task_ids = <<>>

\* line 34: queue = next(queues_buffer)
NextQueue ==
    /\ UNCHANGED notFan
    /\ f_pc = "next_queue"
    /\ queue' = queue_names[queues_buffer]
    /\ queues_buffer' = CycleAdvance(queues_buffer)
    /\ f_pc' = "clone"
    /\ UNCHANGED <<pi, ri, cloned_task, cloned_task_parameters, tasks, enqueued, task_ids>>

\* lines 36-38: Task.clone(source_task=template_task, name=..., parent=...)
Clone ==
    /\ UNCHANGED notFan
    /\ f_pc = "clone"
    /\ tasks' = Append(tasks,
                  [name |-> template_task.name \o <<" ", rois[ri], " ", pathways[pi]>>,
                   parent |-> template_task.id,
                   params |-> template_task.params,
                   tags |-> <<>>,
                   events |-> <<"clone">>])
    /\ cloned_task' = Len(tasks) + 1
    /\ f_pc' = "add_tags"
    /\ UNCHANGED <<queues_buffer, pi, ri, queue, cloned_task_parameters, enqueued, task_ids>>

\* line 40: cloned_task.add_tags([roi, pathway, 'pyramid', layers])
AddTags ==
    /\ UNCHANGED notFan
    /\ f_pc = "add_tags"
    /\ tasks' = [tasks EXCEPT ![cloned_task].tags = <<rois[ri], pathways[pi], "pyramid", layers>>,
                              ![cloned_task].events = Append(@, "add_tags")]
    /\ f_pc' = "get_parameters"
    /\ UNCHANGED <<queues_buffer, pi, ri, queue, cloned_task, cloned_task_parameters, enqueued, task_ids>>

\* lines 42-64: get_parameters() and the overwrites of the local dict
GetParameters ==
    /\ UNCHANGED notFan
    /\ f_pc = "get_parameters"
    /\ cloned_task_parameters' = Overwrite(tasks[cloned_task].params, rois[ri], pathways[pi], queue)
    /\ f_pc' = "set_parameters"
    /\ UNCHANGED <<queues_buffer, pi, ri, queue, cloned_task, tasks, enqueued, task_ids>>

\* line 68: cloned_task.set_parameters(cloned_task_parameters)
SetParameters ==
    /\ UNCHANGED notFan
    /\ f_pc = "set_parameters"
    /\ tasks' = [tasks EXCEPT ![cloned_task].params = cloned_task_parameters,
                              ![cloned_task].events = Append(@, "set_parameters")]
    /\ f_pc' = "enqueue"
    /\ UNCHANGED <<queues_buffer, pi, ri, queue, cloned_task, cloned_task_parameters, enqueued, task_ids>>

\* A variant that enqueues the clone a second time
EnqueueTwice ==
    /\ UNCHANGED notFan
    /\ f_pc = "enqueue"
    /\ enqueued' = enqueued \o << [id |-> cloned_task, queue_name |-> queue,
                                   params |-> tasks[cloned_task].params],
                                  [id |-> cloned_task, queue_name |-> queue,
                                   params |-> tasks[cloned_task].params] >>
    /\ tasks' = [tasks EXCEPT ![cloned_task].events = @ \o <<"enqueue", "enqueue">>]
    /\ f_pc' = "append"
    /\ UNCHANGED <<queues_buffer, pi, ri, queue, cloned_task, cloned_task_parameters, task_ids>>

\* line 72: Task.enqueue(cloned_task.id, queue_name=queue)
Enqueue ==
    /\ UNCHANGED notFan
    /\ f_pc = "enqueue"
    /\ enqueued' = Append(enqueued, [id |-> cloned_task, queue_name |-> queue,
                                     params |-> tasks[cloned_task].params])
    /\ tasks' = [tasks EXCEPT ![cloned_task].events = Append(@, "enqueue")]
    /\ f_pc' = "append"
    /\ UNCHANGED <<queues_buffer, pi, ri, queue, cloned_task, cloned_task_parameters, task_ids>>

\* line 75: task_ids.append(cloned_task.id), then the next roi, or the next
\* pathway with the first roi, or the end of the loops
AppendTaskId ==
    /\ UNCHANGED notFan
    /\ f_pc = "append"
    /\ task_ids' = Append(task_ids, cloned_task)
    /\ IF ri < Len(rois)
       THEN ri' = ri + 1 /\ pi' = pi /\ f_pc' = "next_queue"
       ELSE IF pi < Len(pathways)
       THEN ri' = 1 /\ pi' = pi + 1 /\ f_pc' = "next_queue"
       ELSE ri' = ri /\ pi' = pi /\ f_pc' = "print"
    /\ UNCHANGED <<queues_buffer, queue, cloned_task, cloned_task_parameters, tasks, enqueued>>

\* line 77: print(task_ids)
PrintTaskIds ==
    /\ UNCHANGED notFan
    /\ f_pc = "print"
    /\ f_pc' = "done"
    /\ UNCHANGED <<queues_buffer, pi, ri, queue, cloned_task, cloned_task_parameters,
                   tasks, enqueued, task_ids>>

\* A call to the tracking service raises: nothing catches it, the script ends
ServiceRaises ==
    /\ UNCHANGED notFan
    /\ f_pc \in {"clone", "add_tags", "get_parameters", "set_parameters", "enqueue"}
    /\ f_pc' = "aborted"
    /\ UNCHANGED <<queues_buffer, pi, ri, queue, cloned_task, cloned_task_parameters,
                   tasks, enqueued, task_ids>>

FanNext ==
    \/ NextQueue
    \/ Clone
    \/ AddTags
    \/ GetParameters
    \/ SetParameters
    \/ Enqueue
    \/ AppendTaskId
    \/ PrintTaskIds
    \/ ServiceRaises

-----------------------------------------------------------------------------
(* main.py: LitI3DFC.training_step under manual optimization *)

\* Bounds of the training model
MaxSteps == 3

NumBatches == 2

Batches == 1..NumBatches

\* The module tree: the backbone and the regression head, with the kinds of
\* module that matter to train()/eval()
Modules ==
    {[owner |-> "backbone", type |-> "Conv3d"],
     [owner |-> "backbone", type |-> "BatchNorm3d"],
     [owner |-> "minifc", type |-> "Linear"],
     [owner |-> "minifc", type |-> "BatchNorm1d"]}

\* self.train(): every module of the model in training mode
train_all == [m \in Modules |-> TRUE]

\* self.backbone.apply(disable_bn): eval() on the backbone's BatchNorm3d modules
disable_bn(tr) ==
    [m \in Modules |->
        IF m.owner = "backbone" /\ m.type = "BatchNorm3d" THEN FALSE ELSE tr[m]]

\* SAM.first_step(zero_grad): climb to w + e(w); the gradients are cleared on request
first_step(g, zero_grad) ==
    [perturbed |-> TRUE, used |-> g, grad |-> IF zero_grad THEN <<>> ELSE g]

\* SAM.second_step(zero_grad): back to w, then the base optimizer's step with
\* the gradient taken at w + e(w); the gradients are cleared on request
second_step(g, zero_grad) ==
    [perturbed |-> FALSE, used |-> g, grad |-> IF zero_grad THEN <<>> ELSE g]

\* AdaBelief.step(): the update with the accumulated gradient, which stays in .grad
optimizer_step(g) == [used |-> g, grad |-> g]

\* What one trace entry records of the state an operation ran in
Event(op) ==
    [op |-> op,
     all_training |-> \A m \in Modules : training[m],
     bn3d_training |-> \E m \in Modules :
                          m.owner = "backbone" /\ m.type = "BatchNorm3d" /\ training[m],
     perturbed |-> perturbed]

TrainInit ==
    /\ t_pc = "idle"
    /\ training = train_all
    /\ grad = <<>>
    /\ perturbed = FALSE
    /\ batch = 0
    /\ batch_idx = 0
    /\ trace = <<>>
    /\ updates = <<>>

\* A variant of the entry of training_step without self.train()
TrainingStepBeginNoTrain ==
    /\ UNCHANGED notTrain
    /\ UNCHANGED hparams
    /\ t_pc = "idle"
    /\ batch_idx < MaxSteps
    /\ \E b \in Batches : batch' = b
    /\ batch_idx' = batch_idx + 1
    /\ trace' = <<>>
    /\ t_pc' = "forward1"
    /\ UNCHANGED <<training, grad, perturbed, updates>>

\* lines 152-158: the trainer calls training_step with the next batch; self.train()
TrainingStepBegin ==
    /\ UNCHANGED notTrain
    /\ UNCHANGED hparams
    /\ t_pc = "idle"
    /\ batch_idx < MaxSteps
    /\ \E b \in Batches : batch' = b
    /\ batch_idx' = batch_idx + 1
    /\ training' = train_all
    /\ trace' = <<>>
    /\ t_pc' = "forward1"
    /\ UNCHANGED <<grad, perturbed, updates>>

\* line 160: out, loss = self._shared_train_val(batch, batch_idx, 'train')
Forward1 ==
    /\ UNCHANGED notTrain
    /\ UNCHANGED hparams
    /\ t_pc = "forward1"
    /\ trace' = Append(trace, Event("forward"))
    /\ t_pc' = "backward1"
    /\ UNCHANGED <<training, grad, perturbed, batch, batch_idx, updates>>

\* line 161: self.manual_backward(loss) adds this pass's gradient to .grad;
\* line 163: if self.hparams.asm
Backward1 ==
    /\ UNCHANGED notTrain
    /\ UNCHANGED hparams
    /\ t_pc = "backward1"
    /\ grad' = Append(grad, [step |-> batch_idx, batch |-> batch, pass |-> 1])
    /\ trace' = Append(trace, Event("backward"))
    /\ t_pc' = IF hparams.asm THEN "first_step" ELSE "step"
    /\ UNCHANGED <<training, perturbed, batch, batch_idx, updates>>

\* A variant that goes from the ascent step straight to the descent step
FirstStepThenDescent ==
    /\ UNCHANGED notTrain
    /\ UNCHANGED hparams
    /\ t_pc = "first_step"
    /\ perturbed' = first_step(grad, TRUE).perturbed
    /\ grad' = first_step(grad, TRUE).grad
    /\ updates' = Append(updates, [op |-> "first_step", step |-> batch_idx,
                                   used |-> first_step(grad, TRUE).used])
    /\ trace' = Append(trace, Event("first_step"))
    /\ t_pc' = "second_step"
    /\ UNCHANGED <<training, batch, batch_idx>>

\* line 169: optimizer.first_step(zero_grad=True)
FirstStep ==
    /\ UNCHANGED notTrain
    /\ UNCHANGED hparams
    /\ t_pc = "first_step"
    /\ perturbed' = first_step(grad, TRUE).perturbed
    /\ grad' = first_step(grad, TRUE).grad
    /\ updates' = Append(updates, [op |-> "first_step", step |-> batch_idx,
                                   used |-> first_step(grad, TRUE).used])
    /\ trace' = Append(trace, Event("first_step"))
    /\ t_pc' = "disable_bn"
    /\ UNCHANGED <<training, batch, batch_idx>>

\* line 170: self.backbone.apply(disable_bn)
DisableBn ==
    /\ UNCHANGED notTrain
    /\ UNCHANGED hparams
    /\ t_pc = "disable_bn"
    /\ training' = disable_bn(training)
    /\ trace' = Append(trace, Event("disable_bn"))
    /\ t_pc' = "forward2"
    /\ UNCHANGED <<grad, perturbed, batch, batch_idx, updates>>

\* line 171: out, loss = self._shared_train_val(batch, batch_idx, 'train', is_log=False)
Forward2 ==
    /\ UNCHANGED notTrain
    /\ UNCHANGED hparams
    /\ t_pc = "forward2"
    /\ trace' = Append(trace, Event("forward"))
    /\ t_pc' = "backward2"
    /\ UNCHANGED <<training, grad, perturbed, batch, batch_idx, updates>>

\* line 172: self.manual_backward(loss)
Backward2 ==
    /\ UNCHANGED notTrain
    /\ UNCHANGED hparams
    /\ t_pc = "backward2"
    /\ grad' = Append(grad, [step |-> batch_idx, batch |-> batch, pass |-> 2])
    /\ trace' = Append(trace, Event("backward"))
    /\ t_pc' = "second_step"
    /\ UNCHANGED <<training, perturbed, batch, batch_idx, updates>>

\* line 173: optimizer.second_step(zero_grad=True); training_step returns
SecondStep ==
    /\ UNCHANGED notTrain
    /\ UNCHANGED hparams
    /\ t_pc = "second_step"
    /\ perturbed' = second_step(grad, TRUE).perturbed
    /\ grad' = second_step(grad, TRUE).grad
    /\ updates' = Append(updates, [op |-> "second_step", step |-> batch_idx,
                                   used |-> second_step(grad, TRUE).used])
    /\ trace' = Append(trace, Event("second_step"))
    /\ t_pc' = "idle"
    /\ UNCHANGED <<training, batch, batch_idx>>

\* line 175: optimizer.step(); training_step returns
OptimizerStep ==
    /\ UNCHANGED notTrain
    /\ UNCHANGED hparams
    /\ t_pc = "step"
    /\ grad' = optimizer_step(grad).grad
    /\ updates' = Append(updates, [op |-> "step", step |-> batch_idx,
                                   used |-> optimizer_step(grad).used])
    /\ trace' = Append(trace, Event("step"))
    /\ t_pc' = "idle"
    /\ UNCHANGED <<training, perturbed, batch, batch_idx>>

TrainNext ==
    \/ TrainingStepBegin
    \/ Forward1
    \/ Backward1
    \/ FirstStep
    \/ DisableBn
    \/ Forward2
    \/ Backward2
    \/ SecondStep
    \/ OptimizerStep

-----------------------------------------------------------------------------
(* main.py: LitI3DFC.configure_optimizers *)

\* A float hyperparameter, as a fraction
Frac(n, d) == [num |-> n, den |-> d]

FracMul(a, b) == [num |-> a.num * b.num, den |-> a.den * b.den]

FracEq(a, b) == a.num * b.den = b.num * a.den

\* `nd in n` for strings: nd occurs in n as a contiguous piece
Contains(n, nd) ==
    \E i \in 1..(Len(n) - Len(nd) + 1) : SubSeq(n, i, i + Len(nd) - 1) = nd

no_decay ==
    << <<"bias">>, <<"BatchNorm3D", ".", "weight">>, <<"BatchNorm1D", ".", "weight">>,
       <<"BatchNorm2D", ".", "weight">> >>

\* any(nd in n for nd in no_decay)
AnyNoDecay(n) == \E k \in 1..Len(no_decay) : Contains(n, no_decay[k])

\* [p for n, p in named if cond(n)], in the order of named
RECURSIVE ParamsWhere(_, _)
ParamsWhere(named, wanted) ==
    IF named = <<>> THEN <<>>
    ELSE IF AnyNoDecay(Head(named).n) = wanted
         THEN <<Head(named).p>> \o ParamsWhere(Tail(named), wanted)
         ELSE ParamsWhere(Tail(named), wanted)

\* A variant whose second backbone group repeats the condition of the first
GroupedParametersCopied ==
    << [params |-> ParamsWhere(backbone_named_parameters, FALSE),
        weight_decay |-> hparams.weight_decay,
        lr |-> FracMul(hparams.learning_rate, hparams.backbone_lr_ratio)],
       [params |-> ParamsWhere(backbone_named_parameters, FALSE),
        weight_decay |-> Frac(0, 1),
        lr |-> FracMul(hparams.learning_rate, hparams.backbone_lr_ratio)],
       [params |-> ParamsWhere(minifc_named_parameters, FALSE),
        weight_decay |-> hparams.weight_decay,
        lr |-> hparams.learning_rate],
       [params |-> ParamsWhere(minifc_named_parameters, TRUE),
        weight_decay |-> Frac(0, 1),
        lr |-> hparams.learning_rate] >>

\* lines 196-217: optimizer_grouped_parameters
optimizer_grouped_parameters ==
    << [params |-> ParamsWhere(backbone_named_parameters, FALSE),
        weight_decay |-> hparams.weight_decay,
        lr |-> FracMul(hparams.learning_rate, hparams.backbone_lr_ratio)],
       [params |-> ParamsWhere(backbone_named_parameters, TRUE),
        weight_decay |-> Frac(0, 1),
        lr |-> FracMul(hparams.learning_rate, hparams.backbone_lr_ratio)],
       [params |-> ParamsWhere(minifc_named_parameters, FALSE),
        weight_decay |-> hparams.weight_decay,
        lr |-> hparams.learning_rate],
       [params |-> ParamsWhere(minifc_named_parameters, TRUE),
        weight_decay |-> Frac(0, 1),
        lr |-> hparams.learning_rate] >>

\* Parameter names a module may have, in the order named_parameters() lists them
NamePool ==
    << <<"conv1", ".", "weight">>,
       <<"conv1", ".", "bias">>,
       <<"bn1", ".", "weight">>,
       <<"bn1", ".", "bias">>,
       <<"BatchNorm3D", ".", "weight">> >>

\* named_parameters() of a module `owner` holding the names of NamePool picked by `has`
RECURSIVE NamedFrom(_, _, _)
NamedFrom(owner, has, k) ==
    IF k > Len(NamePool) THEN <<>>
    ELSE (IF k \in has
          THEN << [n |-> NamePool[k], p |-> [owner |-> owner, name |-> NamePool[k]]] >>
          ELSE <<>>) \o NamedFrom(owner, has, k + 1)

HparamChoices ==
    [asm : BOOLEAN,
     weight_decay : {Frac(0, 1), Frac(1, 100)},
     learning_rate : {Frac(3, 10000)},
     backbone_lr_ratio : {Frac(1, 10), Frac(1, 1)}]

OptInit ==
    /\ backbone_named_parameters = <<>>
    /\ minifc_named_parameters = <<>>
    /\ optimizer = [kind |-> "none", param_groups |-> <<>>]

\* lines 193-240: configure_optimizers
ConfigureOptimizers ==
    /\ UNCHANGED notOpt
    /\ optimizer.kind = "none"
    /\ optimizer' = [kind |-> IF hparams.asm THEN "SAM" ELSE "AdaBelief",
                     param_groups |-> optimizer_grouped_parameters]
    /\ UNCHANGED <<hparams, backbone_named_parameters, minifc_named_parameters>>

OptNext == ConfigureOptimizers

-----------------------------------------------------------------------------
(* main.py: vectorized_correlation, validation_step, validation_epoch_end *)

(***************************************************************************)
(* Arithmetic.  A value is NaN, an infinity, or a finite fraction num/den  *)
(* with den > 0.  The unit of the data is 1e-8: a prediction or a target   *)
(* of value v stands for v * 1e-8, so that the epsilon of the code is Eps  *)
(* units.  Sums, products and quotients are exact; a square root is        *)
(* rounded down to a multiple of 1/SqrtScale of the unit.  A division by   *)
(* zero gives what IEEE 754 gives: NaN for 0/0, an infinity otherwise.     *)
(***************************************************************************)
MaxCells == 3

MaxVal == 1

SqrtScale == 16

Eps == 1

NaN == [kind |-> "nan"]

Inf(sign) == [kind |-> "inf", sign |-> sign]

RECURSIVE GCD(_, _)
GCD(a, b) == IF b = 0 THEN a ELSE GCD(b, a % b)

Abs(n) == IF n < 0 THEN -n ELSE n

\* the fraction n/d, d > 0, in lowest terms
Fin(n, d) ==
    LET g == GCD(Abs(n), d) IN [kind |-> "fin", num |-> n \div g, den |-> d \div g]

Sign(n) == IF n < 0 THEN -1 ELSE IF n > 0 THEN 1 ELSE 0

FAdd(a, b) ==
    IF a.kind = "nan" \/ b.kind = "nan" THEN NaN
    ELSE IF a.kind = "inf" /\ b.kind = "inf"
         THEN (IF a.sign = b.sign THEN a ELSE NaN)
    ELSE IF a.kind = "inf" THEN a
    ELSE IF b.kind = "inf" THEN b
    ELSE Fin(a.num * b.den + b.num * a.den, a.den * b.den)

FMul(a, b) ==
    IF a.kind = "nan" \/ b.kind = "nan" THEN NaN
    ELSE IF a.kind = "inf" \/ b.kind = "inf"
         THEN LET sa == IF a.kind = "inf" THEN a.sign ELSE Sign(a.num)
                  sb == IF b.kind = "inf" THEN b.sign ELSE Sign(b.num)
              IN  IF sa * sb = 0 THEN NaN ELSE Inf(sa * sb)
    ELSE Fin(a.num * b.num, a.den * b.den)

FDiv(a, b) ==
    IF a.kind = "nan" \/ b.kind = "nan" THEN NaN
    ELSE IF a.kind = "inf"
         THEN (IF b.kind = "inf" THEN NaN
               ELSE Inf(a.sign * (IF b.num < 0 THEN -1 ELSE 1)))
    ELSE IF b.kind = "inf" THEN Fin(0, 1)
    ELSE IF b.num = 0 THEN (IF a.num = 0 THEN NaN ELSE Inf(Sign(a.num)))
    ELSE IF b.num > 0 THEN Fin(a.num * b.den, a.den * b.num)
    ELSE Fin(-(a.num * b.den), a.den * (-b.num))

\* The largest r with r * r <= v, for v >= 0, found between lo and hi
RECURSIVE ISqrtIn(_, _, _)
ISqrtIn(v, lo, hi) ==
    IF lo >= hi THEN lo
    ELSE LET mid == (lo + hi + 1) \div 2 IN
         IF mid * mid <= v THEN ISqrtIn(v, mid, hi) ELSE ISqrtIn(v, lo, mid - 1)

ISqrt(v) == ISqrtIn(v, 0, v)

FSqrt(a) ==
    IF a.kind = "nan" THEN NaN
    ELSE IF a.kind = "inf" THEN (IF a.sign > 0 THEN a ELSE NaN)
    ELSE IF a.num < 0 THEN NaN
    ELSE Fin(ISqrt((SqrtScale * SqrtScale * a.num) \div a.den), SqrtScale)

RECURSIVE FSum(_)
FSum(vs) == IF vs = <<>> THEN Fin(0, 1) ELSE FAdd(Head(vs), FSum(Tail(vs)))

FNeg(a) ==
    IF a.kind = "nan" THEN NaN
    ELSE IF a.kind = "inf" THEN Inf(-a.sign)
    ELSE Fin(-a.num, a.den)

\* column j of a matrix given as a sequence of rows
Column(m, j) == [i \in 1..Len(m) |-> Fin(m[i][j], 1)]

\* t.mean(0) of one column
Mean(col) == FDiv(FSum(col), Fin(Len(col), 1))

\* t - t.mean(0, keepdims=True), one column
Centered(col) ==
    LET mean == Mean(col) IN [i \in 1..Len(col) |-> FAdd(col[i], FNeg(mean))]

\* t.std(0): the square root of the sum of squared deviations over n - 1
Std(col) ==
    LET c == Centered(col) IN
    FSqrt(FDiv(FSum([i \in 1..Len(col) |-> FMul(c[i], c[i])]), Fin(Len(col) - 1, 1)))

\* A variant of lines 59-69 for one column without the 1e-8 on the deviations
ColumnCorrelationNoEps(xcol, ycol) ==
    LET centered_x == Centered(xcol)
        centered_y == Centered(ycol)
        covariance == FSum([i \in 1..Len(xcol) |-> FMul(centered_x[i], centered_y[i])])
        bessel_corrected_covariance == FDiv(covariance, Fin(Len(xcol) - 1, 1))
        x_std == Std(xcol)
        y_std == Std(ycol)
    IN  FDiv(bessel_corrected_covariance, FMul(x_std, y_std))

\* lines 59-69 for one column (every reduction is along dim 0, every other
\* operation is elementwise)
ColumnCorrelation(xcol, ycol) ==
    LET centered_x == Centered(xcol)
        centered_y == Centered(ycol)
        covariance == FSum([i \in 1..Len(xcol) |-> FMul(centered_x[i], centered_y[i])])
        bessel_corrected_covariance == FDiv(covariance, Fin(Len(xcol) - 1, 1))
        x_std == FAdd(Std(xcol), Fin(Eps, 1))
        y_std == FAdd(Std(ycol), Fin(Eps, 1))
    IN  FDiv(bessel_corrected_covariance, FMul(x_std, y_std))

\* lines 56-71: one value per column, as corr.ravel() lists them
vectorized_correlation(x, y) ==
    [j \in 1..Len(x[1]) |-> ColumnCorrelation(Column(x, j), Column(y, j))]

Values == 0..MaxVal

\* torch.cat([out[key] for out in val_step_outputs], 0)
RECURSIVE Cat(_, _)
Cat(outs, key) ==
    IF outs = <<>> THEN <<>> ELSE Head(outs)[key] \o Cat(Tail(outs), key)

Rows(outs) == Len(Cat(outs, "out"))

CorrInit ==
    /\ output_size = 1
    /\ val_step_outputs = <<>>
    /\ c_pc = "validating"
    /\ corr = <<>>
    /\ val_corr = NaN

\* lines 177-181: validation_step on a batch of one or two samples returns
\* the predictions and the targets of the batch
validation_step ==
    /\ UNCHANGED notCorr
    /\ c_pc = "validating"
    /\ \E b \in 1..2 :
          /\ (Rows(val_step_outputs) + b) * output_size <= MaxCells
          /\ \E out \in [1..b -> [1..output_size -> Values]] :
             \E y \in [1..b -> [1..output_size -> Values]] :
                val_step_outputs' = Append(val_step_outputs, [out |-> out, y |-> y])
    /\ UNCHANGED <<output_size, c_pc, corr, val_corr>>

\* lines 183-191: validation_epoch_end
validation_epoch_end ==
    /\ UNCHANGED notCorr
    /\ c_pc = "validating"
    /\ val_step_outputs # <<>>
    /\ LET val_outs == Cat(val_step_outputs, "out")
           val_ys == Cat(val_step_outputs, "y")
           r == vectorized_correlation(val_outs, val_ys)
       IN  /\ corr' = r
           /\ val_corr' = FDiv(FSum(r), Fin(Len(r), 1))
    /\ c_pc' = "logged"
    /\ UNCHANGED <<output_size, val_step_outputs>>

CorrNext ==
    \/ validation_step
    \/ validation_epoch_end

-----------------------------------------------------------------------------
(* main.py, __main__: the files a submitted job writes *)

\* Epochs a job trains for
JobEpochs == 3

\* The values val_corr takes at the end of a validation, in units of 1e-7
CorrChoices == {1, 2, 11}

Jobs == {1, 2}

\* The pairs of submitted jobs looked at, by their place in the submission
\* order: the same pathway with two rois, the same roi under the two pathways,
\* and jobs that share neither
JobPairs == {<<1, 2>>, <<1, 10>>, <<1, 11>>}

Digit == <<"0", "1", "2", "3", "4", "5", "6", "7", "8", "9">>

\* the decimal digits of n, at least `width` of them
RECURSIVE Digits(_, _)
Digits(n, width) ==
    IF n < 10 /\ width <= 1 THEN <<Digit[n + 1]>>
    ELSE Append(Digits(n \div 10, width - 1), Digit[(n % 10) + 1])

\* '{epoch:02d}'
Format02d(epoch) == Digits(epoch, 2)

\* '{val_corr:.6f}' of a value v * 1e-7 with 0 <= v: rounded to six decimals
Format6f(v) ==
    LET r == (v + 5) \div 10 IN
    Digits(r \div 1000000, 1) \o <<".">> \o Digits(r % 1000000, 6)

\* line 276: dirpath
CheckpointDir == <<"/home/huze/.cache/checkpoints">>

\* line 279: save_top_k
save_top_k == 2

\* lines 276-277: dirpath/filename of a checkpoint, with the version suffix the
\* callback adds to a name that is taken (ver = -1: none)
CheckpointPath(epoch, v, ver) ==
    CheckpointDir \o <<"/", "MiniFC-", "epoch=">> \o Format02d(epoch)
        \o <<"-", "val_corr=">> \o Format6f(v)
        \o (IF ver < 0 THEN <<>> ELSE <<"-v">> \o Digits(ver, 1)) \o <<".ckpt">>

Exists(path) == \E f \in fs : f.path = path

\* the first of name, name-v0, name-v1, ... that does not exist
RECURSIVE FreeVersion(_, _, _)
FreeVersion(epoch, v, ver) ==
    IF Exists(CheckpointPath(epoch, v, ver)) THEN FreeVersion(epoch, v, ver + 1) ELSE ver

\* line 323: os.path.join(args.predictions_dir, f'{args.roi}.pt')
PredictionPath(args) == args.predictions_dir \o args.roi \o <<".pt">>

\* line 325: os.path.join(args.predictions_dir, f'{args.roi}-score-{score:.6f}')
ScorePath(args, score) ==
    args.predictions_dir \o args.roi \o <<"-score-">> \o Format6f(score)

\* the command line of the k-th job the fan-out submitted
JobArgs(k) ==
    LET p == Overwrite(TemplateParameters, Combination(k).roi, Combination(k).pathway,
                       queue_names[((k - 1) % Len(queue_names)) + 1])
    IN  [roi |-> p["Args/roi"],
         pathways |-> p["Args/pathways"],
         predictions_dir |-> p["Args/predictions_dir"],
         save_checkpoints |-> p["Args/save_checkpoints"] = <<"True">>]

Write(files, path, j) == {f \in files : f.path # path} \cup {[path |-> path, writer |-> j]}

Worst(kept) == CHOOSE c \in kept : \A d \in kept : c.score <= d.score

Best(kept) == CHOOSE c \in kept : \A d \in kept : c.score >= d.score

JobsIdle ==
    /\ j_args = <<>>
    /\ j_pc = <<>>
    /\ j_epoch = <<>>
    /\ j_kept = <<>>
    /\ j_pending = <<>>
    /\ j_written = <<>>
    /\ fs = {}

\* The end of a validation of job j with val_corr = v: the checkpoint callback
\* (lines 274-281) takes the checkpoint when it is among the save_top_k best,
\* and picks a file name that does not exist yet
ValidationEnd(j) ==
    /\ UNCHANGED notJobs
    /\ j_pc[j] = "fit"
    /\ j_epoch[j] < JobEpochs
    /\ \E v \in CorrChoices :
          IF /\ j_args[j].save_checkpoints
             /\ \/ Cardinality(j_kept[j]) < save_top_k
                \/ v > Worst(j_kept[j]).score
          THEN /\ j_pending' = [j_pending EXCEPT ![j] =
                      [score |-> v,
                       path |-> CheckpointPath(j_epoch[j], v, FreeVersion(j_epoch[j], v, -1))]]
               /\ j_pc' = [j_pc EXCEPT ![j] = "saving"]
               /\ UNCHANGED j_epoch
          ELSE /\ j_epoch' = [j_epoch EXCEPT ![j] = @ + 1]
               /\ UNCHANGED <<j_pending, j_pc>>
    /\ UNCHANGED <<j_args, j_kept, j_written, fs>>

\* The callback writes the checkpoint and deletes the one that left its top k
SaveCheckpoint(j) ==
    /\ UNCHANGED notJobs
    /\ j_pc[j] = "saving"
    /\ LET full == Cardinality(j_kept[j]) >= save_top_k
           del == IF full THEN {Worst(j_kept[j])} ELSE {}
           path == j_pending[j].path
       IN  /\ j_kept' = [j_kept EXCEPT ![j] = (@ \ del) \cup {j_pending[j]}]
           /\ fs' = {f \in Write(fs, path, j) :
                        \A d \in del : d.path = path \/ f.path # d.path}
           /\ j_written' = [j_written EXCEPT ![j] = @ \cup {path}]
    /\ j_epoch' = [j_epoch EXCEPT ![j] = @ + 1]
    /\ j_pc' = [j_pc EXCEPT ![j] = "fit"]
    /\ UNCHANGED <<j_args, j_pending>>

\* trainer.fit returns (line 317)
FitReturns(j) ==
    /\ UNCHANGED notJobs
    /\ j_pc[j] = "fit"
    /\ j_epoch[j] = JobEpochs
    /\ j_pc' = [j_pc EXCEPT ![j] = "predict"]
    /\ UNCHANGED <<j_args, j_epoch, j_kept, j_pending, j_written, fs>>

\* lines 319-325: the predictions of the best checkpoint and its score are saved
SavePredictions(j) ==
    /\ UNCHANGED notJobs
    /\ j_pc[j] = "predict"
    /\ IF j_args[j].save_checkpoints
       THEN LET pred == PredictionPath(j_args[j])
                score == ScorePath(j_args[j], Best(j_kept[j]).score)
            IN  /\ fs' = Write(Write(fs, pred, j), score, j)
                /\ j_written' = [j_written EXCEPT ![j] = @ \cup {pred, score}]
       ELSE UNCHANGED <<fs, j_written>>
    /\ j_pc' = [j_pc EXCEPT ![j] = "done"]
    /\ UNCHANGED <<j_args, j_epoch, j_kept, j_pending>>

JobsNext ==
    \E j \in Jobs :
        \/ ValidationEnd(j)
        \/ SaveCheckpoint(j)
        \/ FitReturns(j)
        \/ SavePredictions(j)

-----------------------------------------------------------------------------
(* Specifications *)

\* The defaults of the command line (lines 122-124, 260)
DefaultHparams ==
    [asm |-> FALSE, weight_decay |-> Frac(1, 100), learning_rate |-> Frac(3, 10000),
     backbone_lr_ratio |-> Frac(1, 10)]

InitFanout == FanInit /\ TrainInit /\ OptInit /\ CorrInit /\ JobsIdle /\ hparams = DefaultHparams

SpecFanout == InitFanout /\ [][FanNext]_vars

InitTrain ==
    /\ FanInit /\ TrainInit /\ OptInit /\ CorrInit /\ JobsIdle
    /\ \E a \in BOOLEAN : hparams = [DefaultHparams EXCEPT !.asm = a]

SpecTrain == InitTrain /\ [][TrainNext]_vars

\* A model with any of the names of NamePool in the backbone and in the head,
\* under any of the hyperparameter choices
InitOpt ==
    /\ FanInit /\ TrainInit /\ CorrInit /\ JobsIdle
    /\ hparams \in HparamChoices
    /\ \E has \in SUBSET (1..Len(NamePool)) :
          backbone_named_parameters = NamedFrom("backbone", has, 1)
    /\ \E has \in SUBSET (1..Len(NamePool)) :
          minifc_named_parameters = NamedFrom("minifc", has, 1)
    /\ optimizer = [kind |-> "none", param_groups |-> <<>>]

SpecOpt == InitOpt /\ [][OptNext]_vars

\* A validation epoch of a model with any number of outputs
InitCorr ==
    /\ FanInit /\ TrainInit /\ OptInit /\ JobsIdle
    /\ hparams = DefaultHparams
    /\ output_size \in 1..MaxCells
    /\ val_step_outputs = <<>>
    /\ c_pc = "validating"
    /\ corr = <<>>
    /\ val_corr = NaN

SpecCorr == InitCorr /\ [][CorrNext]_vars

\* Two of the jobs the fan-out submitted, started and running side by side
InitJobs ==
    /\ FanInit /\ TrainInit /\ OptInit /\ CorrInit
    /\ hparams = DefaultHparams
    /\ \E pair \in JobPairs : j_args = <<JobArgs(pair[1]), JobArgs(pair[2])>>
    /\ j_pc = [j \in Jobs |-> "fit"]
    /\ j_epoch = [j \in Jobs |-> 0]
    /\ j_kept = [j \in Jobs |-> {}]
    /\ j_pending = [j \in Jobs |-> [score |-> 0, path |-> <<>>]]
    /\ j_written = [j \in Jobs |-> {}]
    /\ fs = {}

SpecJobs == InitJobs /\ [][JobsNext]_vars

-----------------------------------------------------------------------------
(* Properties of the experiment fan-out *)

\* C1: the k-th job submitted, counted from 0 over the whole nested loop, is
\* enqueued to queue_names[k mod len(queue_names)]; with the device list
\* {'16': [0, 1]} the jobs alternate 16-0, 16-1, 16-0, ... and the rotation does
\* not start again when the pathway changes; a finished run enqueued 18 jobs.
C1_RoundRobin ==
    /\ queue_names = << <<"16", "-", "0">>, <<"16", "-", "1">> >>
    /\ \A k \in 1..Len(enqueued) :
          /\ enqueued[k].queue_name = queue_names[((k - 1) % Len(queue_names)) + 1]
          /\ enqueued[k].queue_name =
                IF k % 2 = 1 THEN <<"16", "-", "0">> ELSE <<"16", "-", "1">>
          /\ enqueued[k].params["Args/pathways"] = <<Combination(k).pathway>>
    /\ f_pc = "done" => Len(enqueued) = 18

\* C1 witness: the run is over and the first job of the second pathway, the
\* tenth job, went to 16-1, right after the ninth went to 16-0
C1_Witness ==
    /\ f_pc = "done"
    /\ Len(enqueued) = 18
    /\ enqueued[9].params["Args/pathways"] = <<"topdown">>
    /\ enqueued[9].queue_name = <<"16", "-", "0">>
    /\ enqueued[10].params["Args/pathways"] = <<"none">>
    /\ enqueued[10].queue_name = <<"16", "-", "1">>

FullEvents == <<"clone", "add_tags", "set_parameters", "enqueue">>

\* C2: every (pathway, roi) combination is handled exactly once: its clone is
\* made, then its parameters are overwritten on the clone, and only then is
\* the clone enqueued, once; task_ids holds the ids in submission order, and
\* 18 of them, one per combination, when the loop is over.
C2_EachCombinationOnce ==
    /\ \A id \in 1..Len(tasks) :
          /\ IsPrefix(tasks[id].events, FullEvents)
          /\ tasks[id].name =
                BASE_TASK \o <<" ", Combination(id).roi, " ", Combination(id).pathway>>
    /\ \A k \in 1..Len(enqueued) :
          /\ enqueued[k].id = k
          /\ enqueued[k].params["Args/roi"] = <<Combination(k).roi>>
          /\ enqueued[k].params["Args/pathways"] = <<Combination(k).pathway>>
          /\ enqueued[k].params["Args/gpus"] = <<enqueued[k].queue_name[3]>>
    /\ \A k \in 1..Len(task_ids) :
          /\ task_ids[k] = k
          /\ tasks[k].events = FullEvents
    /\ Len(enqueued) \in {Len(task_ids), Len(task_ids) + 1}
    /\ \A j, k \in 1..18 : j # k => Combination(j) # Combination(k)
    /\ f_pc = "done" =>
          /\ Len(task_ids) = 18
          /\ Len(enqueued) = 18
          /\ Len(tasks) = 18

\* C2 witness: the loop is over with the 18 ids, the last one for ('none', 'V4')
C2_Witness ==
    /\ f_pc = "done"
    /\ Len(task_ids) = 18
    /\ tasks[task_ids[18]].params["Args/roi"] = <<"V4">>
    /\ tasks[task_ids[18]].params["Args/pathways"] = <<"none">>
    /\ tasks[task_ids[18]].events = FullEvents

-----------------------------------------------------------------------------
(* Properties of training_step *)

AsmSequence ==
    <<"forward", "backward", "first_step", "disable_bn", "forward", "backward",
      "second_step">>

PlainSequence == <<"forward", "backward", "step">>

Ops(tr) == [i \in 1..Len(tr) |-> tr[i].op]

\* C3: with asm a training step is forward, backward, ascent step, BatchNorm3d
\* of the backbone to eval, forward, backward, descent step, and nothing else;
\* the ascent step starts from unperturbed parameters and the descent step
\* reverts the perturbation of its own step, so a step never starts perturbed.
\* Without asm a training step is forward, backward, optimizer.step().
C3_StepSequence ==
    LET expected == IF hparams.asm THEN AsmSequence ELSE PlainSequence IN
    /\ IsPrefix(Ops(trace), expected)
    /\ (t_pc = "idle" /\ batch_idx > 0) => Ops(trace) = expected
    /\ \A i \in 1..Len(trace) :
          /\ trace[i].op = "first_step" => ~trace[i].perturbed
          /\ trace[i].op = "second_step" => trace[i].perturbed
          /\ trace[i].op = "step" => ~trace[i].perturbed
    /\ t_pc \in {"idle", "forward1"} => ~perturbed
    /\ ~hparams.asm => ~perturbed

\* C3 witness: the second training step with asm has just returned
C3_Witness ==
    /\ hparams.asm
    /\ t_pc = "idle"
    /\ batch_idx = 2
    /\ Ops(trace) = AsmSequence
    /\ Len(updates) = 4

\* C8: when a training step starts the gradients are zero, and every update
\* (optimizer.step(), first_step, second_step) uses only gradients computed
\* in its own training step, with or without asm.
C8_GradientOfCurrentBatchOnly ==
    /\ t_pc = "forward1" => grad = <<>>
    /\ \A u \in 1..Len(updates) :
          \A i \in 1..Len(updates[u].used) : updates[u].used[i].step = updates[u].step

\* C9: with asm, the first forward pass of every training step runs with all
\* modules in training mode and the second one with every BatchNorm3d of the
\* backbone in eval mode.
C9_BnEvalDoesNotLeak ==
    hparams.asm =>
        \A i \in 1..Len(trace) :
            trace[i].op = "forward" =>
                IF i = 1 THEN trace[i].all_training ELSE ~trace[i].bn3d_training

\* C9 witness: the second forward pass of the second step ran, after the first
\* step had left the backbone's BatchNorm3d in eval mode
C9_Witness ==
    /\ hparams.asm
    /\ batch_idx = 2
    /\ t_pc = "backward2"
    /\ trace[1].op = "forward" /\ trace[1].all_training
    /\ trace[5].op = "forward" /\ ~trace[5].bn3d_training

-----------------------------------------------------------------------------
(* Properties of configure_optimizers *)

NamedParams(named) == {named[i].p : i \in 1..Len(named)}

Occurrences(seq, x) == Cardinality({i \in 1..Len(seq) : seq[i] = x})

-----------------------------------------------------------------------------
(* Properties of vectorized_correlation *)

val_outs == Cat(val_step_outputs, "out")

val_ys == Cat(val_step_outputs, "y")

\* the values of column j are not all the same
Varies(m, j) == \E i, k \in 1..Len(m) : m[i][j] # m[k][j]

\* C5: every element vectorized_correlation returns lies in [-1, 1], for a
\* batch of any number of samples n >= 1.
C5_CorrelationInUnitInterval ==
    c_pc = "logged" =>
        \A j \in 1..Len(corr) :
            /\ corr[j].kind = "fin"
            /\ -corr[j].den <= corr[j].num
            /\ corr[j].num <= corr[j].den

\* C6: when the predictions equal the targets, the correlation of every output
\* dimension whose target varies is 1.
C6_EqualInputsGiveOne ==
    (c_pc = "logged" /\ val_outs = val_ys) =>
        \A j \in 1..Len(corr) :
            Varies(val_ys, j) => (corr[j].kind = "fin" /\ corr[j].num = corr[j].den)

\* C6, amended: when the predictions equal the targets, the correlation of
\* every output dimension whose target varies is finite, above 0 and below 1:
\* it is var / (std + 1e-8)^2.
C6_EqualInputsGiveAlmostOne ==
    (c_pc = "logged" /\ val_outs = val_ys) =>
        \A j \in 1..Len(corr) :
            Varies(val_ys, j) =>
                /\ corr[j].kind = "fin"
                /\ 0 < corr[j].num
                /\ corr[j].num < corr[j].den

\* C6 witness: predictions equal to targets that vary, and the correlation returned
C6_Witness ==
    /\ c_pc = "logged"
    /\ val_outs = val_ys
    /\ Len(val_ys) >= 2
    /\ \A j \in 1..Len(corr) : Varies(val_ys, j)

\* C7: for an output dimension whose target has zero variance over the batch
\* the value returned is finite, whatever the batch size, one sample included.
C7_ZeroVarianceIsFinite ==
    c_pc = "logged" =>
        \A j \in 1..Len(corr) : ~Varies(val_ys, j) => corr[j].kind = "fin"

-----------------------------------------------------------------------------
(* Properties of the submitted jobs *)

\* C4: two distinct submitted jobs write disjoint sets of file paths
\* (checkpoints, <roi>.pt and the score file), so that neither can overwrite
\* the output of the other.
C4_JobsWriteDisjointPaths ==
    /\ j_written[1] \cap j_written[2] = {}
    /\ \A f \in fs : f.path \in j_written[f.writer]

=============================================================================
